---- MODULE Spec2Model ----
(***************************************************************************)
(* prompt-ai-backend: the file-backed session store (session_manager.py),  *)
(* the response validator (gemini_client.py) and the HTTP handlers         *)
(* (main.py).  Python strings are TLA+ strings, handled character by       *)
(* character with Len, SubSeq and \o.                                      *)
(***************************************************************************)
EXTENDS Integers, Sequences, FiniteSets, TLC

VARIABLES
    files,      \* sessions/<key>.json : key -> [exists, text]
    metadata,   \* sessions/metadata.json : [exists, items]
    clock,      \* the wall clock read by _now_iso()
    uuids,      \* how many uuid4() values have been drawn
    methods,    \* the attributes the SessionManager instance offers
    requests,   \* the /chat requests in flight in the worker threads
    last        \* the last call: its arguments and what it returned

vars == <<files, metadata, clock, uuids, methods, requests, last>>

(***************************************************************************)
(* Bounds of the model.                                                    *)
(***************************************************************************)
MaxClock == 6
MaxOptLen == 4
MaxWritten == 2

(***************************************************************************)
(* Characters and strings.                                                 *)
(***************************************************************************)
CharAt(s, i) == SubSeq(s, i, i)

Chars(s) == {CharAt(s, i) : i \in 1..Len(s)}

\* [A-Za-z0-9]; str.isalnum() agrees with it on the ASCII characters used here
AlnumChars ==
    Chars("abcdefghijklmnopqrstuvwxyzABCDEFGHIJKLMNOPQRSTUVWXYZ0123456789")

Whitespace == {" ", "\t", "\n"}

RECURSIVE lstrip(_)
lstrip(s) ==
    IF s = "" THEN ""
    ELSE IF CharAt(s, 1) \in Whitespace THEN lstrip(Tail(s)) ELSE s

RECURSIVE rstrip(_)
rstrip(s) ==
    IF s = "" THEN ""
    ELSE IF CharAt(s, Len(s)) \in Whitespace
         THEN rstrip(SubSeq(s, 1, Len(s) - 1)) ELSE s

\* str.strip()
strip(s) == rstrip(lstrip(s))

\* str.startswith(prefix)
startswith(s, prefix) ==
    /\ Len(s) >= Len(prefix)
    /\ SubSeq(s, 1, Len(prefix)) = prefix

Digit(n) == CharAt("0123456789", n + 1)

TwoDigits(n) == Digit((n \div 10) % 10) \o Digit(n % 10)

(***************************************************************************)
(* session_manager.py                                                      *)
(***************************************************************************)
\* the methods class SessionManager defines
SessionManagerMethods ==
    {"__init__", "_session_file", "get_history", "save_history", "delete_history"}

RECURSIVE safe_session_id(_)
safe_session_id(session_id) ==
    IF session_id = "" THEN ""
    ELSE LET c == CharAt(session_id, 1)
         IN  (IF c \in AlnumChars \/ c \in {"-", "_"} THEN c ELSE "")
                 \o safe_session_id(Tail(session_id))

\* _session_file: the storage key, or ValueError when nothing is left of the id
_session_file(session_id) ==
    LET safe == safe_session_id(session_id)
    IN  IF safe = ""
        THEN [exc |-> "ValueError", key |-> ""]
        ELSE [exc |-> "none", key |-> safe]

(***************************************************************************)
(* Python values as json.loads produces them.  A value carries its type:   *)
(* str, int, bool, None, list, or dict (its items in insertion order, the  *)
(* keys distinct).                                                         *)
(***************************************************************************)
PyStrV(s) == [t |-> "str", s |-> s]
PyInt(n) == [t |-> "int", n |-> n]
PyBool(b) == [t |-> "bool", b |-> b]
PyNone == [t |-> "NoneType"]
PyList(items) == [t |-> "list", items |-> items]
PyDict(items) == [t |-> "dict", kv |-> items]
KV(k, v) == [k |-> k, v |-> v]

isinstance(v, type) == v.t = type

HasKey(d, key) == \E i \in 1..Len(d.kv) : d.kv[i].k = key

\* dict.get(key, default)
get(d, key, default) ==
    IF HasKey(d, key)
    THEN d.kv[CHOOSE i \in 1..Len(d.kv) : d.kv[i].k = key].v
    ELSE default

\* hash(v) raises TypeError for a list or a dict
Hashable(v) == v.t \notin {"list", "dict"}

RECURSIVE JoinStr(_, _)
JoinStr(strs, sep) ==
    IF Len(strs) = 0 THEN ""
    ELSE IF Len(strs) = 1 THEN strs[1]
    ELSE strs[1] \o sep \o JoinStr(Tail(strs), sep)

RECURSIVE repr(_)
repr(v) ==
    CASE v.t = "str" -> "'" \o v.s \o "'"
      [] v.t = "int" -> ToString(v.n)
      [] v.t = "bool" -> IF v.b THEN "True" ELSE "False"
      [] v.t = "NoneType" -> "None"
      [] v.t = "list" ->
            "[" \o JoinStr([i \in 1..Len(v.items) |-> repr(v.items[i])], ", ") \o "]"
      [] v.t = "dict" ->
            "{" \o JoinStr([i \in 1..Len(v.kv) |->
                              "'" \o v.kv[i].k \o "': " \o repr(v.kv[i].v)], ", ") \o "}"

\* str(v)
str(v) == IF v.t = "str" THEN v.s ELSE repr(v)

(***************************************************************************)
(* gemini_client.py: the response validator                                *)
(***************************************************************************)
RadioMarker == "( ) "
CheckboxMarker == "[ ] "

\* opt if opt.startswith(marker) else f"{marker}{opt}"
AddMarker(opt, marker) == IF startswith(opt, marker) THEN opt ELSE marker \o opt

\* a slip: a text element keeps the options it was given
CleanOptionsKeepsText(el_type, options) ==
    LET cleaned == [i \in 1..Len(options) |-> strip(str(options[i]))]
    IN  IF el_type = PyStrV("radio")
        THEN [i \in 1..Len(cleaned) |-> AddMarker(cleaned[i], RadioMarker)]
        ELSE IF el_type = PyStrV("checkbox")
        THEN [i \in 1..Len(cleaned) |-> AddMarker(cleaned[i], CheckboxMarker)]
        ELSE cleaned

\* the options of one element: every option coerced to str and stripped,
\* then marked according to the element's type
CleanOptions(el_type, options) ==
    LET cleaned == [i \in 1..Len(options) |-> strip(str(options[i]))]
    IN  IF el_type = PyStrV("radio")
        THEN [i \in 1..Len(cleaned) |-> AddMarker(cleaned[i], RadioMarker)]
        ELSE IF el_type = PyStrV("checkbox")
        THEN [i \in 1..Len(cleaned) |-> AddMarker(cleaned[i], CheckboxMarker)]
        ELSE <<>>

KnownType(el_type) ==
    el_type \in {PyStrV("radio"), PyStrV("checkbox"), PyStrV("text")}

\* one pass of the loop body: the entry kept (as a one-element list) or dropped
NormalizeElement(el) ==
    IF ~isinstance(el, "dict") THEN <<>>
    ELSE LET el_type == get(el, "type", PyNone)
             given == get(el, "options", PyList(<<>>))
             options == IF isinstance(given, "list") THEN given.items ELSE <<>>
         IN  IF KnownType(el_type)
             THEN <<[type |-> el_type.s, options |-> CleanOptions(el_type, options)]>>
             ELSE <<>>

RECURSIVE NormalizeAll(_)
NormalizeAll(els) ==
    IF Len(els) = 0 THEN <<>>
    ELSE NormalizeElement(els[1]) \o NormalizeAll(Tail(els))

_normalize_ui_elements(ui_elements) ==
    IF ~isinstance(ui_elements, "list") THEN <<>>
    ELSE NormalizeAll(ui_elements.items)

ValidStatus == {"collecting", "delivered"}

\* `status not in {...}` hashes status first: an unhashable status raises
_validate_response(payload) ==
    LET status == get(payload, "status", PyNone)
        question_text == get(payload, "question_text", PyNone)
        final_prompt == get(payload, "final_prompt", PyNone)
    IN  IF ~Hashable(status)
        THEN [exc |-> "TypeError"]
        ELSE [exc |-> "none",
              val |-> [status |-> IF isinstance(status, "str") /\ status.s \in ValidStatus
                                  THEN status.s ELSE "collecting",
                       question_text |-> IF isinstance(question_text, "str")
                                         THEN question_text.s ELSE "",
                       ui_elements |-> _normalize_ui_elements(
                                           get(payload, "ui_elements", PyNone)),
                       final_prompt |-> IF isinstance(final_prompt, "str")
                                        THEN final_prompt.s ELSE ""]]

(***************************************************************************)
(* json.dump / json.load.  The text of a file is its sequence of JSON      *)
(* tokens (brackets, braces, literals and strings; the separators are      *)
(* implied).                                                               *)
(***************************************************************************)
Tok(k, s) == [k |-> k, s |-> s]

RECURSIVE Flatten(_)
Flatten(seqs) ==
    IF Len(seqs) = 0 THEN <<>> ELSE seqs[1] \o Flatten(Tail(seqs))

RECURSIVE json_dump(_)
json_dump(v) ==
    CASE v.t = "str" -> <<Tok("str", v.s)>>
      [] v.t = "NoneType" -> <<Tok("null", "")>>
      [] v.t = "bool" -> <<Tok(IF v.b THEN "true" ELSE "false", "")>>
      [] v.t = "int" -> <<Tok("int", ToString(v.n))>>
      [] v.t = "list" ->
            <<Tok("[", "")>>
                \o Flatten([i \in 1..Len(v.items) |-> json_dump(v.items[i])])
                \o <<Tok("]", "")>>
      [] v.t = "dict" ->
            <<Tok("{", "")>>
                \o Flatten([i \in 1..Len(v.kv) |->
                              <<Tok("str", v.kv[i].k)>> \o json_dump(v.kv[i].v)])
                \o <<Tok("}", "")>>

ParseFail == [ok |-> FALSE, val |-> PyNone, next |-> 0]

Parsed(v, next) == [ok |-> TRUE, val |-> v, next |-> next]

RECURSIVE ParseValue(_, _), ParseItems(_, _, _), ParseMembers(_, _, _)
ParseValue(toks, i) ==
    IF i > Len(toks) THEN ParseFail
    ELSE CASE toks[i].k = "str" -> Parsed(PyStrV(toks[i].s), i + 1)
           [] toks[i].k = "null" -> Parsed(PyNone, i + 1)
           [] toks[i].k = "true" -> Parsed(PyBool(TRUE), i + 1)
           [] toks[i].k = "false" -> Parsed(PyBool(FALSE), i + 1)
           [] toks[i].k = "int" ->
                 Parsed(PyInt(CHOOSE n \in 0..99 : ToString(n) = toks[i].s), i + 1)
           [] toks[i].k = "[" -> ParseItems(toks, i + 1, <<>>)
           [] toks[i].k = "{" -> ParseMembers(toks, i + 1, <<>>)
           [] OTHER -> ParseFail

ParseItems(toks, i, acc) ==
    IF i > Len(toks) THEN ParseFail
    ELSE IF toks[i].k = "]" THEN Parsed(PyList(acc), i + 1)
    ELSE LET r == ParseValue(toks, i)
         IN  IF r.ok THEN ParseItems(toks, r.next, Append(acc, r.val)) ELSE ParseFail

ParseMembers(toks, i, acc) ==
    IF i > Len(toks) THEN ParseFail
    ELSE IF toks[i].k = "}" THEN Parsed(PyDict(acc), i + 1)
    ELSE IF toks[i].k # "str" THEN ParseFail
    ELSE LET r == ParseValue(toks, i + 1)
         IN  IF r.ok
             THEN ParseMembers(toks, r.next, Append(acc, KV(toks[i].s, r.val)))
             ELSE ParseFail

\* json.load: the value, or JSONDecodeError unless the text is one whole value
json_load(toks) ==
    LET r == ParseValue(toks, 1)
    IN  IF r.ok /\ r.next = Len(toks) + 1
        THEN [exc |-> "none", val |-> r.val]
        ELSE [exc |-> "JSONDecodeError", val |-> PyNone]

(***************************************************************************)
(* session_manager.py: get_history, save_history, delete_history           *)
(***************************************************************************)
NoFile == [exists |-> FALSE, text |-> <<>>]

File(text) == [exists |-> TRUE, text |-> text]

get_history(fs, session_id) ==
    LET session_file == _session_file(session_id)
    IN  IF session_file.exc # "none" THEN [exc |-> session_file.exc, val |-> <<>>]
        ELSE IF ~fs[session_file.key].exists THEN [exc |-> "none", val |-> <<>>]
        ELSE LET data == json_load(fs[session_file.key].text)
             IN  IF data.exc # "none" THEN [exc |-> data.exc, val |-> <<>>]
                 ELSE IF ~isinstance(data.val, "list")
                 THEN [exc |-> "ValueError", val |-> <<>>]
                 ELSE [exc |-> "none", val |-> data.val.items]

\* a slip: the file is extended with the history instead of replaced by it
save_history_appends(fs, session_id, history) ==
    LET session_file == _session_file(session_id)
    IN  IF session_file.exc # "none" THEN [exc |-> session_file.exc, files |-> fs]
        ELSE [exc |-> "none",
              files |-> [fs EXCEPT ![session_file.key] =
                  File(json_dump(PyList(get_history(fs, session_id).val \o history)))]]

\* a slip: the stored turns that the new history lacks are kept in front of it
save_history_merges(fs, session_id, history) ==
    LET session_file == _session_file(session_id)
        stored == get_history(fs, session_id).val
        kept == SelectSeq(stored,
                    LAMBDA msg : \A i \in 1..Len(history) : history[i] # msg)
    IN  IF session_file.exc # "none" THEN [exc |-> session_file.exc, files |-> fs]
        ELSE [exc |-> "none",
              files |-> [fs EXCEPT ![session_file.key] =
                                       File(json_dump(PyList(kept \o history)))]]

\* open(..., "w") replaces the text of the file with the dump of the history
save_history(fs, session_id, history) ==
    LET session_file == _session_file(session_id)
    IN  IF session_file.exc # "none" THEN [exc |-> session_file.exc, files |-> fs]
        ELSE [exc |-> "none",
              files |-> [fs EXCEPT ![session_file.key] =
                                       File(json_dump(PyList(history)))]]

\* save_history when the write raises after `written` tokens of the dump have
\* reached the file (a value json cannot encode, a full disk): open(..., "w")
\* has emptied the file by then, and the with block closes it as it is
save_history_interrupted(fs, session_id, history, written) ==
    LET session_file == _session_file(session_id)
    IN  IF session_file.exc # "none" THEN [exc |-> session_file.exc, files |-> fs]
        ELSE [exc |-> "OSError",
              files |-> [fs EXCEPT ![session_file.key] =
                            File(SubSeq(json_dump(PyList(history)), 1, written))]]

\* a slip: True is returned but the file is not unlinked
delete_history_keeps_file(fs, session_id) ==
    LET session_file == _session_file(session_id)
    IN  IF session_file.exc # "none"
        THEN [exc |-> session_file.exc, val |-> FALSE, files |-> fs]
        ELSE [exc |-> "none", val |-> fs[session_file.key].exists, files |-> fs]

delete_history(fs, session_id) ==
    LET session_file == _session_file(session_id)
    IN  IF session_file.exc # "none"
        THEN [exc |-> session_file.exc, val |-> FALSE, files |-> fs]
        ELSE IF ~fs[session_file.key].exists
        THEN [exc |-> "none", val |-> FALSE, files |-> fs]
        ELSE [exc |-> "none", val |-> TRUE,
              files |-> [fs EXCEPT ![session_file.key] = NoFile]]

\* session_exists as the session store's contract states it: whether a history
\* is stored under the sanitized id.  class SessionManager does not define it.
session_exists(fs, session_id) ==
    LET session_file == _session_file(session_id)
    IN  IF session_file.exc # "none" THEN [exc |-> session_file.exc, val |-> FALSE]
        ELSE [exc |-> "none", val |-> fs[session_file.key].exists]

(***************************************************************************)
(* gemini_client.py: the two model calls.  What the upstream model does is *)
(* an input: `reply` is how its call ends.                                 *)
(***************************************************************************)
RECURSIVE JsonEscape(_)
JsonEscape(s) ==
    IF s = "" THEN ""
    ELSE LET c == CharAt(s, 1)
         IN  (CASE c = "\"" -> "\\\""
                [] c = "\\" -> "\\\\"
                [] c = "\n" -> "\\n"
                [] c = "\t" -> "\\t"
                [] OTHER -> c) \o JsonEscape(Tail(s))

DumpsStr(s) == "\"" \o JsonEscape(s) \o "\""

DumpsElement(el) ==
    "{\"type\": " \o DumpsStr(el.type) \o ", \"options\": ["
        \o JoinStr([i \in 1..Len(el.options) |-> DumpsStr(el.options[i])], ", ")
        \o "]}"

\* json.dumps(gemini_response, ensure_ascii=False)
json_dumps(response) ==
    "{\"status\": " \o DumpsStr(response.status)
        \o ", \"question_text\": " \o DumpsStr(response.question_text)
        \o ", \"ui_elements\": ["
        \o JoinStr([i \in 1..Len(response.ui_elements) |->
                       DumpsElement(response.ui_elements[i])], ", ")
        \o "], \"final_prompt\": " \o DumpsStr(response.final_prompt) \o "}"

\* reply.kind: "error" (the call raises), "invalid" (no JSON can be parsed out
\* of the text), "non_object" (JSON, but no object), "object" (reply.payload)
get_gemini_response(history, reply) ==
    CASE reply.kind = "error" -> [exc |-> "Exception"]
      [] reply.kind = "invalid" -> [exc |-> "ValueError"]
      [] reply.kind = "non_object" -> [exc |-> "ValueError"]
      [] reply.kind = "object" -> _validate_response(reply.payload)
      [] OTHER -> [exc |-> "Exception"]

\* raw_text.split(): the maximal runs of non-whitespace characters
RECURSIVE SplitWords(_, _)
SplitWords(s, word) ==
    IF s = "" THEN (IF word = "" THEN <<>> ELSE <<word>>)
    ELSE IF CharAt(s, 1) \in Whitespace
         THEN (IF word = "" THEN <<>> ELSE <<word>>) \o SplitWords(Tail(s), "")
         ELSE SplitWords(Tail(s), word \o CharAt(s, 1))

\* re.sub(r"[^A-Za-z0-9]+", "", w)
RECURSIVE KeepAlnum(_)
KeepAlnum(w) ==
    IF w = "" THEN ""
    ELSE (IF CharAt(w, 1) \in AlnumChars THEN CharAt(w, 1) ELSE "")
             \o KeepAlnum(Tail(w))

TitleWords == 4

DefaultTitleWords == <<"New", "Prompt", "Session">>

get_session_title(user_input, reply) ==
    IF reply.kind = "error" THEN [exc |-> "Exception", val |-> ""]
    ELSE LET split == SplitWords(strip(reply.text), "")
             cleaned == [i \in 1..Len(split) |-> KeepAlnum(split[i])]
             words == SelectSeq(cleaned, LAMBDA w : w # "")
             kept == IF Len(words) >= TitleWords THEN SubSeq(words, 1, TitleWords)
                     ELSE IF Len(words) = 0 THEN DefaultTitleWords
                     ELSE words
         IN  [exc |-> "none", val |-> JoinStr(kept, " ")]

(***************************************************************************)
(* main.py: the metadata index                                             *)
(***************************************************************************)
MinIdLen == 1
MaxIdLen == 128
MinInputLen == 1
PreviewLen == 140
DefaultTitle == "New Session"

\* datetime.now(timezone.utc).isoformat() at clock reading t, the clock counting
\* half seconds: isoformat leaves the microseconds out when they are zero
_now_iso(t) ==
    "2026-01-01T00:00:" \o TwoDigits(t \div 2)
        \o (IF t % 2 = 1 THEN ".500000" ELSE "") \o "+00:00"

\* uuid.uuid4().hex, the n-th value drawn
uuid4(n) == "uuid" \o TwoDigits(n)

\* s[:n]
Prefix(s, n) == SubSeq(s, 1, IF Len(s) < n THEN Len(s) ELSE n)

MetaItem(id, title, updated_at, preview) ==
    [id |-> id, title |-> title, updated_at |-> updated_at, preview |-> preview]

MetaItemToPy(item) ==
    PyDict(<<KV("id", PyStrV(item.id)), KV("title", PyStrV(item.title)),
             KV("updated_at", PyStrV(item.updated_at)),
             KV("preview", PyStrV(item.preview))>>)

\* json.dump(metadata, f): the index file with these items
MetaFile(items) ==
    File(json_dump(PyList([i \in 1..Len(items) |-> MetaItemToPy(items[i])])))

\* the loop body of _load_metadata: the entry kept (one-element list) or skipped
LoadItem(item) ==
    IF ~isinstance(item, "dict") THEN <<>>
    ELSE LET session_id == get(item, "id", PyNone)
             title == get(item, "title", PyNone)
             updated_at == get(item, "updated_at", PyStrV(""))
             preview == get(item, "preview", PyStrV(""))
         IN  IF isinstance(session_id, "str") /\ isinstance(title, "str")
             THEN <<MetaItem(session_id.s, title.s, str(updated_at), str(preview))>>
             ELSE <<>>

_load_metadata(md) ==
    IF ~md.exists THEN <<>>
    ELSE LET data == json_load(md.text)
         IN  IF data.exc # "none" THEN <<>>
             ELSE IF ~isinstance(data.val, "list") THEN <<>>
             ELSE Flatten([i \in 1..Len(data.val.items) |-> LoadItem(data.val.items[i])])

\* x or ""
OrEmpty(x) == IF isinstance(x, "NoneType") THEN "" ELSE x.s

\* lines 88-108: the loaded entries with the session's entry set or appended;
\* updated_at and preview are a str or None
UpdatedItems(items, session_id, title, updated_at, preview) ==
    LET hits == {i \in 1..Len(items) : items[i].id = session_id}
    IN  IF hits # {}
        THEN LET first == CHOOSE i \in hits : \A j \in hits : i <= j
                 item == items[first]
             IN  [items EXCEPT ![first] =
                     MetaItem(item.id, title,
                              IF isinstance(updated_at, "NoneType")
                              THEN item.updated_at ELSE updated_at.s,
                              IF isinstance(preview, "NoneType")
                              THEN item.preview ELSE preview.s)]
        ELSE Append(items,
                 MetaItem(session_id, title, OrEmpty(updated_at), OrEmpty(preview)))

update_metadata(md, session_id, title, updated_at, preview) ==
    MetaFile(UpdatedItems(_load_metadata(md), session_id, title, updated_at, preview))

(***************************************************************************)
(* main.py: the request handlers.  A handler's outcome is its HTTP status  *)
(* code and body, the files it leaves, the clock and uuid counters, and    *)
(* the model calls it made.  The counters count the timestamps and ids     *)
(* that reach a file: a request that fails stores none of those it drew.   *)
(***************************************************************************)
Outcome(code, body, fs, md, t, u, calls) ==
    [code |-> code, body |-> body, files |-> fs, metadata |-> md,
     clock |-> t, uuids |-> u, calls |-> calls]

Detail(text) == [detail |-> text]

\* pydantic: Field(..., min_length=1, max_length=128)
ValidSessionIdField(session_id) ==
    Len(session_id) >= MinIdLen /\ Len(session_id) <= MaxIdLen

\* pydantic: Field(..., min_length=1)
ValidInputField(user_input) == Len(user_input) >= MinInputLen

Message(id, role, content, created_at) ==
    PyDict(<<KV("id", PyStrV(id)), KV("role", PyStrV(role)),
             KV("content", PyStrV(content)),
             KV("parts", PyList(<<PyStrV(content)>>)),
             KV("created_at", PyStrV(created_at))>>)

\* the text of a stored message: its content, else its first part
MessageText(msg, parts) ==
    LET content == get(msg, "content", PyNone)
    IN  IF isinstance(content, "str") THEN content.s
        ELSE IF isinstance(parts, "list") /\ Len(parts.items) > 0
        THEN (IF isinstance(parts.items[1], "NoneType") THEN ""
              ELSE str(parts.items[1]))
        ELSE ""

GeminiRoles == {"user", "model", "system"}

\* a slip: the role is passed on as stored, assistant is not renamed
ToGeminiMessageKeepsRole(msg) ==
    IF ~isinstance(msg, "dict") THEN <<>>
    ELSE LET role == str(get(msg, "role", PyStrV("")))
         IN  IF role \notin GeminiRoles THEN <<>>
             ELSE <<[role |-> role,
                     parts |-> <<MessageText(msg, get(msg, "parts", PyNone))>>]>>

\* the loop body of _to_gemini_history
ToGeminiMessage(msg) ==
    IF ~isinstance(msg, "dict") THEN <<>>
    ELSE LET given == str(get(msg, "role", PyStrV("")))
             role == IF given = "assistant" THEN "model" ELSE given
         IN  IF role \notin GeminiRoles THEN <<>>
             ELSE <<[role |-> role,
                     parts |-> <<MessageText(msg, get(msg, "parts", PyNone))>>]>>

_to_gemini_history(history) ==
    Flatten([i \in 1..Len(history) |-> ToGeminiMessage(history[i])])

\* session_manager.session_exists(...): the attribute is looked up first
CallSessionExists(ms, fs, session_id) ==
    IF "session_exists" \notin ms
    THEN [exc |-> "AttributeError", val |-> FALSE]
    ELSE session_exists(fs, session_id)

\* a slip: the title of the existing entry is not looked up
ChatTitleIgnoresEntry(md, session_id, user_input, is_first_message, title_reply) ==
    LET generated == get_session_title(user_input, title_reply)
    IN  IF is_first_message /\ generated.exc = "none"
        THEN generated.val ELSE DefaultTitle

\* a slip: a failed title call leaves no title at all
ChatTitleLostOnFailure(md, session_id, user_input, is_first_message, title_reply) ==
    LET items == _load_metadata(md)
        hits == {i \in 1..Len(items) : items[i].id = session_id}
        generated == get_session_title(user_input, title_reply)
    IN  IF is_first_message
        THEN (IF generated.exc = "none" THEN generated.val ELSE "")
        ELSE IF hits = {} THEN DefaultTitle
        ELSE items[CHOOSE i \in hits : \A j \in hits : i <= j].title

\* lines 176-186: the title the entry gets
ChatTitle(md, session_id, user_input, is_first_message, title_reply) ==
    LET items == _load_metadata(md)
        hits == {i \in 1..Len(items) : items[i].id = session_id}
        title == IF hits = {} THEN DefaultTitle
                 ELSE items[CHOOSE i \in hits : \A j \in hits : i <= j].title
        generated == get_session_title(user_input, title_reply)
    IN  IF is_first_message /\ generated.exc = "none" THEN generated.val ELSE title

\* lines 146-152
UserMessage(u, t, user_input) == Message(uuid4(u), "user", user_input, _now_iso(t))

\* lines 161-169
AssistantMessage(u, t, assistant_content) ==
    Message(uuid4(u), "assistant", assistant_content, _now_iso(t))

\* a slip: the history with the new user turn is saved before the error is raised
GeminiFailedSavesUserTurn(fs, md, t, u, session_id, history, exc) ==
    Outcome(500, Detail("Gemini call failed: " \o exc),
            save_history(fs, session_id, history).files, md, t + 1, u + 1,
            <<"get_gemini_response">>)

\* lines 157-158: the model call raised exc; history holds the new user turn
GeminiFailed(fs, md, t, u, session_id, history, exc) ==
    Outcome(500, Detail("Gemini call failed: " \o exc), fs, md, t, u,
            <<"get_gemini_response">>)

\* line 192: assistant_content[:140]
Preview(assistant_content) == Prefix(assistant_content, PreviewLen)

\* a slip: the entry is filed under the storage key instead of the id given
ChatMetadataUnderStorageKey(md, session_id, title, t, assistant_content) ==
    update_metadata(md, safe_session_id(session_id), title, PyStrV(_now_iso(t)),
                    PyStrV(Preview(assistant_content)))

\* lines 188-193
ChatMetadata(md, session_id, title, t, assistant_content) ==
    update_metadata(md, session_id, title, PyStrV(_now_iso(t)),
                    PyStrV(Preview(assistant_content)))

chat(ms, fs, md, t, u, session_id, user_input, reply, title_reply) ==
    IF ~(ValidSessionIdField(session_id) /\ ValidInputField(user_input))
    THEN Outcome(422, Detail("validation error"), fs, md, t, u, <<>>)
    ELSE
    LET exists == CallSessionExists(ms, fs, session_id)
        loaded == get_history(fs, session_id)
    IN
    IF exists.exc # "none"
    THEN Outcome(400, Detail(exists.exc), fs, md, t, u, <<>>)
    ELSE IF loaded.exc # "none"
    THEN Outcome(400, Detail(loaded.exc), fs, md, t, u, <<>>)
    ELSE
    LET is_first_message == ~exists.val
        history == Append(loaded.val, UserMessage(u, t, user_input))
        gemini == get_gemini_response(_to_gemini_history(history), reply)
    IN
    IF gemini.exc # "none"
    THEN GeminiFailed(fs, md, t, u, session_id, history, gemini.exc)
    ELSE
    LET assistant_content == json_dumps(gemini.val)
        full == Append(history, AssistantMessage(u + 1, t + 1, assistant_content))
        saved == save_history(fs, session_id, full)
    IN
    IF saved.exc # "none"
    THEN Outcome(500, Detail("Failed to save history: " \o saved.exc), fs, md, t, u,
                 <<"get_gemini_response">>)
    ELSE
    Outcome(200, gemini.val, saved.files,
            ChatMetadata(md, session_id,
                ChatTitle(md, session_id, user_input, is_first_message, title_reply),
                t + 2, assistant_content),
            t + 3, u + 2,
            IF is_first_message
            THEN <<"get_gemini_response", "get_session_title">>
            ELSE <<"get_gemini_response">>)

\* a slip: the index is rewritten only when a history was deleted
reset_keeps_entry_without_history(fs, md, t, u, session_id) ==
    IF ~ValidSessionIdField(session_id)
    THEN Outcome(422, Detail("validation error"), fs, md, t, u, <<>>)
    ELSE
    LET deleted == delete_history(fs, session_id)
        items == _load_metadata(md)
    IN
    IF deleted.exc # "none"
    THEN Outcome(400, Detail(deleted.exc), fs, md, t, u, <<>>)
    ELSE Outcome(200, [session_id |-> session_id, reset |-> deleted.val],
                 deleted.files,
                 IF deleted.val
                 THEN MetaFile(SelectSeq(items, LAMBDA item : item.id # session_id))
                 ELSE md,
                 t, u, <<>>)

\* a slip: the error of delete_history is swallowed and the index is rewritten
reset_swallows_invalid_id(fs, md, t, u, session_id) ==
    IF ~ValidSessionIdField(session_id)
    THEN Outcome(422, Detail("validation error"), fs, md, t, u, <<>>)
    ELSE
    LET deleted == delete_history(fs, session_id)
        items == _load_metadata(md)
    IN  Outcome(200, [session_id |-> session_id, reset |-> deleted.val],
                deleted.files,
                MetaFile(SelectSeq(items, LAMBDA item : item.id # session_id)),
                t, u, <<>>)

reset(fs, md, t, u, session_id) ==
    IF ~ValidSessionIdField(session_id)
    THEN Outcome(422, Detail("validation error"), fs, md, t, u, <<>>)
    ELSE
    LET deleted == delete_history(fs, session_id)
        items == _load_metadata(md)
    IN
    IF deleted.exc # "none"
    THEN Outcome(400, Detail(deleted.exc), fs, md, t, u, <<>>)
    ELSE Outcome(200, [session_id |-> session_id, reset |-> deleted.val],
                 deleted.files,
                 MetaFile(SelectSeq(items, LAMBDA item : item.id # session_id)),
                 t, u, <<>>)

\* the characters timestamps and ids are made of, in the order of their code
\* points
CodePoints ==
    " ()+-./0123456789:ABCDEFGHIJKLMNOPQRSTUVWXYZ[]_abcdefghijklmnopqrstuvwxyz"

ord(c) == CHOOSE i \in 1..Len(CodePoints) : CharAt(CodePoints, i) = c

\* a < b on str
RECURSIVE StrLess(_, _)
StrLess(a, b) ==
    IF b = "" THEN FALSE
    ELSE IF a = "" THEN TRUE
    ELSE IF CharAt(a, 1) = CharAt(b, 1) THEN StrLess(Tail(a), Tail(b))
    ELSE ord(CharAt(a, 1)) < ord(CharAt(b, 1))

\* item put into a list sorted by updated_at descending, behind its equals
InsertDescending(sorted, item) ==
    LET smaller == {i \in 1..Len(sorted) :
                       StrLess(sorted[i].updated_at, item.updated_at)}
        at == IF smaller = {} THEN Len(sorted) + 1
              ELSE CHOOSE i \in smaller : \A j \in smaller : i <= j
    IN  SubSeq(sorted, 1, at - 1) \o <<item>> \o SubSeq(sorted, at, Len(sorted))

\* a slip: reverse=True is left out
RECURSIVE SortByUpdatedAtAscending(_)
SortByUpdatedAtAscending(items) ==
    IF items = <<>> THEN <<>>
    ELSE LET sorted == SortByUpdatedAtAscending(SubSeq(items, 1, Len(items) - 1))
             item == items[Len(items)]
             greater == {i \in 1..Len(sorted) :
                            StrLess(item.updated_at, sorted[i].updated_at)}
             at == IF greater = {} THEN Len(sorted) + 1
                   ELSE CHOOSE i \in greater : \A j \in greater : i <= j
         IN  SubSeq(sorted, 1, at - 1) \o <<item>> \o SubSeq(sorted, at, Len(sorted))

\* items.sort(key=lambda x: x.get("updated_at", ""), reverse=True): stable
RECURSIVE SortByUpdatedAt(_)
SortByUpdatedAt(items) ==
    IF items = <<>> THEN <<>>
    ELSE InsertDescending(SortByUpdatedAt(SubSeq(items, 1, Len(items) - 1)),
                          items[Len(items)])

list_sessions(md) ==
    LET items == SortByUpdatedAt(_load_metadata(md))
    IN  [i \in 1..Len(items) |->
            [session_id |-> items[i].id, title |-> items[i].title,
             updated_at |-> items[i].updated_at, preview |-> items[i].preview]]

\* the loop body of summary
SummaryAnswer(message) ==
    IF ~isinstance(message, "dict") THEN <<>>
    ELSE IF get(message, "role", PyNone) # PyStrV("user") THEN <<>>
    ELSE <<MessageText(message, get(message, "parts", PyList(<<>>)))>>

\* a slip: the role of a message is not looked at
summary_of_all_roles(fs, md, t, u, session_id) ==
    LET loaded == get_history(fs, session_id)
    IN  IF loaded.exc # "none"
        THEN Outcome(400, Detail(loaded.exc), fs, md, t, u, <<>>)
        ELSE Outcome(200,
                     [session_id |-> session_id,
                      user_answers |->
                          [i \in 1..Len(loaded.val) |->
                              MessageText(loaded.val[i],
                                          get(loaded.val[i], "parts", PyList(<<>>)))]],
                     fs, md, t, u, <<>>)

summary(fs, md, t, u, session_id) ==
    LET loaded == get_history(fs, session_id)
    IN  IF loaded.exc # "none"
        THEN Outcome(400, Detail(loaded.exc), fs, md, t, u, <<>>)
        ELSE Outcome(200,
                     [session_id |-> session_id,
                      user_answers |->
                          Flatten([i \in 1..Len(loaded.val) |->
                                      SummaryAnswer(loaded.val[i])])],
                     fs, md, t, u, <<>>)

HistoryRoles == {"user", "assistant", "system"}

\* the loop body of session_history, for the i-th stored message
NormalizedMessage(msg, i) ==
    IF ~isinstance(msg, "dict") THEN <<>>
    ELSE LET given == str(get(msg, "role", PyStrV("")))
             role == IF given = "model" THEN "assistant" ELSE given
             msg_id == get(msg, "id", PyNone)
             created_at == get(msg, "created_at", PyNone)
         IN  <<[id |-> IF isinstance(msg_id, "str") /\ msg_id.s # ""
                       THEN msg_id.s ELSE "msg-" \o ToString(i),
                role |-> IF role \in HistoryRoles THEN role ELSE "assistant",
                content |-> MessageText(msg, get(msg, "parts", PyList(<<>>))),
                created_at |-> IF isinstance(created_at, "str")
                               THEN created_at.s ELSE ""]>>

session_history(ms, fs, md, t, u, session_id) ==
    LET exists == CallSessionExists(ms, fs, session_id)
        loaded == get_history(fs, session_id)
    IN
    IF exists.exc # "none"
    THEN Outcome(400, Detail(exists.exc), fs, md, t, u, <<>>)
    ELSE IF ~exists.val
    THEN Outcome(404, Detail("Session not found"), fs, md, t, u, <<>>)
    ELSE IF loaded.exc # "none"
    THEN Outcome(400, Detail(loaded.exc), fs, md, t, u, <<>>)
    ELSE Outcome(200,
                 Flatten([i \in 1..Len(loaded.val) |->
                             NormalizedMessage(loaded.val[i], i)]),
                 fs, md, t, u, <<>>)

(***************************************************************************)
(* The inputs the requests are drawn from.                                 *)
(***************************************************************************)
\* "s/1" and "s1" share the storage key "s1"; "/" has no valid character;
\* "" fails the request model's min_length
SessionIds == {"s1", "s/1", "s2", "/", ""}

FileKeys == {safe_session_id(id) : id \in SessionIds} \ {""}

UserInputs == {"hi", "go"}

LongQuestion ==
    "Which of these goals matters most to you for the prompt we are building today?"

ChatPayloads ==
    { PyDict(<<KV("status", PyStrV("collecting")), KV("question_text", PyStrV("Q?")),
               KV("ui_elements", PyList(<<
                   PyDict(<<KV("type", PyStrV("radio")),
                            KV("options", PyList(<<PyStrV("x"), PyStrV("( ) y")>>))>>)>>)),
               KV("final_prompt", PyStrV(""))>>),
      PyDict(<<KV("status", PyStrV("delivered")),
               KV("question_text", PyStrV(LongQuestion)),
               KV("ui_elements", PyList(<<>>)),
               KV("final_prompt", PyStrV("Act as a \"guide\"."))>>),
      PyDict(<<KV("status", PyList(<<>>)), KV("question_text", PyStrV("Q?"))>>) }

Replies ==
    {[kind |-> "error"], [kind |-> "invalid"], [kind |-> "non_object"]}
        \cup {[kind |-> "object", payload |-> p] : p \in ChatPayloads}

\* no call is made, so there is no reply
NoReply == [kind |-> "none"]

TitleReplies ==
    {[kind |-> "error"], [kind |-> "text", text |-> " Plan: a trip! "]}

\* the histories handed to save_history directly
Histories ==
    { <<>>,
      <<Message("m1", "user", "hi", _now_iso(0))>>,
      <<Message("m1", "user", "hi", _now_iso(0)),
        Message("m2", "assistant", "{}", _now_iso(0))>>,
      <<Message("m2", "assistant", "{}", _now_iso(0)),
        Message("m1", "user", "hi", _now_iso(0)),
        Message("m3", "system", "be brief", _now_iso(0))>> }

(***************************************************************************)
(* The state machine.                                                      *)
(***************************************************************************)
\* chat is a plain def: the server runs each request in a worker thread
Workers == {1, 2}

\* a worker with no request
Idle == [pc |-> "idle"]

Init ==
    /\ files = [k \in FileKeys |-> NoFile]
    /\ metadata = NoFile
    /\ clock = 0
    /\ uuids = 0
    /\ methods = SessionManagerMethods
    /\ requests = [r \in Workers |-> Idle]
    /\ last = [op |-> "start"]

\* the same, with a session store that offers session_exists
InitContract ==
    /\ files = [k \in FileKeys |-> NoFile]
    /\ metadata = NoFile
    /\ clock = 0
    /\ uuids = 0
    /\ methods = SessionManagerMethods \cup {"session_exists"}
    /\ requests = [r \in Workers |-> Idle]
    /\ last = [op |-> "start"]

Apply(o) ==
    /\ files' = o.files
    /\ metadata' = o.metadata
    /\ clock' = o.clock
    /\ uuids' = o.uuids
    /\ UNCHANGED <<methods, requests>>

\* whether chat gets as far as the model call (line 156)
ReachesModel(ms, fs, session_id, user_input) ==
    /\ ValidSessionIdField(session_id) /\ ValidInputField(user_input)
    /\ CallSessionExists(ms, fs, session_id).exc = "none"
    /\ get_history(fs, session_id).exc = "none"

\* whether chat, given the model's reply, calls get_session_title (line 184)
ReachesTitle(ms, fs, session_id, user_input, reply) ==
    /\ ReachesModel(ms, fs, session_id, user_input)
    /\ get_gemini_response(<<>>, reply).exc = "none"
    /\ ~CallSessionExists(ms, fs, session_id).val

\* what chat hands to the model (line 156), nothing when it does not get there
SentToModel(fs, t, u, session_id, user_input, reply) ==
    IF reply = NoReply THEN <<>>
    ELSE _to_gemini_history(
             Append(get_history(fs, session_id).val, UserMessage(u, t, user_input)))

\* how the call of get_session_title (line 184) ended, if it was made
TitleCall(user_input, title_reply) ==
    IF title_reply = NoReply THEN [exc |-> "not called", val |-> ""]
    ELSE get_session_title(user_input, title_reply)

\* POST /chat with its inputs from the given sets; the replies of the model
\* calls it makes are inputs, and a call that is not made has no reply
ChatOn(session_ids, user_inputs, replies, title_replies, max_clock) ==
    \E session_id \in session_ids, user_input \in user_inputs,
       reply \in replies \cup {NoReply}, title_reply \in title_replies \cup {NoReply} :
        /\ clock + 3 <= max_clock
        /\ reply # NoReply <=> ReachesModel(methods, files, session_id, user_input)
        /\ title_reply # NoReply <=>
               ReachesTitle(methods, files, session_id, user_input, reply)
        /\ LET o == chat(methods, files, metadata, clock, uuids,
                         session_id, user_input, reply, title_reply)
           IN  /\ Apply(o)
               /\ last' = [op |-> "chat", session_id |-> session_id,
                           user_input |-> user_input,
                           code |-> o.code, body |-> o.body, calls |-> o.calls,
                           sent |-> SentToModel(files, clock, uuids, session_id,
                                                user_input, reply),
                           title_call |-> TitleCall(user_input, title_reply)]

Chat == ChatOn(SessionIds, UserInputs, Replies, TitleReplies, MaxClock)

\* POST /reset
Reset ==
    \E session_id \in SessionIds :
        LET o == reset(files, metadata, clock, uuids, session_id)
        IN  /\ Apply(o)
            /\ last' = [op |-> "reset", session_id |-> session_id,
                        code |-> o.code, body |-> o.body]

\* GET /history/{session_id}
History ==
    \E session_id \in SessionIds \ {""} :
        LET o == session_history(methods, files, metadata, clock, uuids, session_id)
        IN  /\ Apply(o)
            /\ last' = [op |-> "history", session_id |-> session_id,
                        code |-> o.code, body |-> o.body]

\* session_manager.save_history(session_id, history)
SaveHistory ==
    \E session_id \in SessionIds, history \in Histories :
        LET r == save_history(files, session_id, history)
        IN  /\ files' = r.files
            /\ last' = [op |-> "save_history", session_id |-> session_id,
                        history |-> history, exc |-> r.exc]
            /\ UNCHANGED <<metadata, clock, uuids, methods, requests>>

\* session_manager.save_history(session_id, history) with a write that raises
\* before the dump is complete
SaveHistoryFails ==
    \E session_id \in SessionIds, history \in Histories, written \in 0..MaxWritten :
        /\ written < Len(json_dump(PyList(history)))
        /\ LET r == save_history_interrupted(files, session_id, history, written)
           IN  /\ files' = r.files
               /\ last' = [op |-> "save_history_fails", session_id |-> session_id,
                           history |-> history, written |-> written, exc |-> r.exc]
               /\ UNCHANGED <<metadata, clock, uuids, methods, requests>>

\* session_manager.get_history(session_id)
GetHistory ==
    \E session_id \in SessionIds :
        LET r == get_history(files, session_id)
        IN  /\ last' = [op |-> "get_history", session_id |-> session_id,
                        exc |-> r.exc, val |-> r.val]
            /\ UNCHANGED <<files, metadata, clock, uuids, methods, requests>>

\* session_manager.delete_history(session_id)
DeleteHistory ==
    \E session_id \in SessionIds :
        LET r == delete_history(files, session_id)
        IN  /\ files' = r.files
            /\ last' = [op |-> "delete_history", session_id |-> session_id,
                        exc |-> r.exc, val |-> r.val]
            /\ UNCHANGED <<metadata, clock, uuids, methods, requests>>

\* session_manager.session_exists(session_id)
SessionExists ==
    \E session_id \in SessionIds :
        LET r == CallSessionExists(methods, files, session_id)
        IN  /\ last' = [op |-> "session_exists", session_id |-> session_id,
                        exc |-> r.exc, val |-> r.val]
            /\ UNCHANGED <<files, metadata, clock, uuids, methods, requests>>

Next ==
    \/ Chat
    \/ Reset
    \/ History
    \/ SaveHistory
    \/ SaveHistoryFails
    \/ GetHistory
    \/ DeleteHistory
    \/ SessionExists

\* the program as it is
Spec == Init /\ [][Next]_vars

NextApi ==
    \/ Chat
    \/ Reset
    \/ History

\* the HTTP API over a session store that keeps its contract
SpecContract == InitContract /\ [][NextApi]_vars

(***************************************************************************)
(* The listing and the summary of sessions built by a few more turns, from *)
(* fewer inputs.                                                           *)
(***************************************************************************)
MaxListClock == 9

ListingIds == {"s1", "s2"}

ListingReplies ==
    { [kind |-> "error"],
      [kind |-> "object",
       payload |-> PyDict(<<KV("status", PyStrV("collecting")),
                            KV("question_text", PyStrV("go"))>>)] }

ChatListing == ChatOn(ListingIds, UserInputs, ListingReplies, TitleReplies, MaxListClock)

\* GET /sessions
ListSessions ==
    /\ last' = [op |-> "sessions", code |-> 200, body |-> list_sessions(metadata)]
    /\ UNCHANGED <<files, metadata, clock, uuids, methods, requests>>

\* GET /summary/{session_id}
Summary ==
    \E session_id \in SessionIds \ {""} :
        LET o == summary(files, metadata, clock, uuids, session_id)
        IN  /\ Apply(o)
            /\ last' = [op |-> "summary", session_id |-> session_id,
                        code |-> o.code, body |-> o.body]

NextListing ==
    \/ ChatListing
    \/ ListSessions
    \/ Summary

\* turns, then what /sessions and /summary show of them
SpecListing == InitContract /\ [][NextListing]_vars

(***************************************************************************)
(* /chat requests that run at the same time.  Each worker thread runs one  *)
(* request through the statements of chat, one access to the shared files  *)
(* per step; what a request holds in its local variables is its record.    *)
(***************************************************************************)
ConcurrentIds == {"s1", "s2"}

\* the input of the request each worker runs
WorkerInput == <<"hi", "go">>

ConcurrentReplies ==
    { [kind |-> "error"],
      [kind |-> "object",
       payload |-> PyDict(<<KV("status", PyStrV("collecting")),
                            KV("question_text", PyStrV("Q?"))>>)] }

Request(pc, session_id, user_input) ==
    [pc |-> pc, session_id |-> session_id, user_input |-> user_input,
     is_first_message |-> FALSE, loaded |-> <<>>, history |-> <<>>,
     assistant_content |-> "", title |-> "", updated_at |-> "", items |-> <<>>,
     code |-> 0, body |-> Detail("")]

Failed(request, code, detail) ==
    [request EXCEPT !.pc = "done", !.code = code, !.body = Detail(detail)]

\* line 140
ChatSessionExists(r) ==
    \E session_id \in ConcurrentIds :
        /\ requests[r] = Idle
        /\ LET exists == CallSessionExists(methods, files, session_id)
               request == Request("get_history", session_id, WorkerInput[r])
           IN  requests' = [requests EXCEPT ![r] =
                   IF exists.exc # "none" THEN Failed(request, 400, exists.exc)
                   ELSE [request EXCEPT !.is_first_message = ~exists.val]]
        /\ UNCHANGED <<files, metadata, clock, uuids, methods, last>>

\* lines 141-153
ChatGetHistory(r) ==
    /\ requests[r].pc = "get_history"
    /\ LET request == requests[r]
           loaded == get_history(files, request.session_id)
       IN  IF loaded.exc # "none"
           THEN /\ requests' = [requests EXCEPT ![r] = Failed(request, 400, loaded.exc)]
                /\ UNCHANGED <<clock, uuids>>
           ELSE /\ requests' = [requests EXCEPT ![r] =
                        [request EXCEPT !.pc = "get_gemini_response",
                            !.loaded = loaded.val,
                            !.history = Append(loaded.val,
                                UserMessage(uuids, clock, request.user_input))]]
                /\ clock' = clock + 1
                /\ uuids' = uuids + 1
    /\ UNCHANGED <<files, metadata, methods, last>>

\* lines 155-169
ChatGeminiResponse(r) ==
    \E reply \in ConcurrentReplies :
        /\ requests[r].pc = "get_gemini_response"
        /\ LET request == requests[r]
               gemini == get_gemini_response(_to_gemini_history(request.history), reply)
           IN  IF gemini.exc # "none"
               THEN /\ requests' = [requests EXCEPT ![r] =
                            Failed(request, 500, "Gemini call failed: " \o gemini.exc)]
                    /\ UNCHANGED <<clock, uuids>>
               ELSE /\ requests' = [requests EXCEPT ![r] =
                            [request EXCEPT !.pc = "save_history",
                                !.body = gemini.val,
                                !.assistant_content = json_dumps(gemini.val),
                                !.history = Append(request.history,
                                    AssistantMessage(uuids, clock,
                                                     json_dumps(gemini.val)))]]
                    /\ clock' = clock + 1
                    /\ uuids' = uuids + 1
        /\ UNCHANGED <<files, metadata, methods, last>>

\* lines 171-174
ChatSaveHistory(r) ==
    /\ requests[r].pc = "save_history"
    /\ LET request == requests[r]
           saved == save_history(files, request.session_id, request.history)
       IN  /\ files' = saved.files
           /\ requests' = [requests EXCEPT ![r] =
                   IF saved.exc # "none"
                   THEN Failed(request, 500, "Failed to save history: " \o saved.exc)
                   ELSE [request EXCEPT !.pc = "title"]]
    /\ UNCHANGED <<metadata, clock, uuids, methods, last>>

\* lines 176-186
ChatSessionTitle(r) ==
    \E title_reply \in TitleReplies \cup {NoReply} :
        /\ requests[r].pc = "title"
        /\ title_reply # NoReply <=> requests[r].is_first_message
        /\ LET request == requests[r]
           IN  requests' = [requests EXCEPT ![r] =
                   [request EXCEPT !.pc = "update_metadata",
                       !.title = ChatTitle(metadata, request.session_id,
                                           request.user_input,
                                           request.is_first_message, title_reply)]]
        /\ UNCHANGED <<files, metadata, clock, uuids, methods, last>>

\* lines 188-193 and, in update_metadata, lines 86-87
ChatLoadMetadata(r) ==
    /\ requests[r].pc = "update_metadata"
    /\ requests' = [requests EXCEPT ![r] =
           [requests[r] EXCEPT !.pc = "write_metadata",
               !.updated_at = _now_iso(clock),
               !.items = _load_metadata(metadata)]]
    /\ clock' = clock + 1
    /\ UNCHANGED <<files, metadata, uuids, methods, last>>

\* in update_metadata, lines 88-111, and line 195
ChatWriteMetadata(r) ==
    /\ requests[r].pc = "write_metadata"
    /\ LET request == requests[r]
       IN  /\ metadata' = MetaFile(UpdatedItems(request.items, request.session_id,
                               request.title, PyStrV(request.updated_at),
                               PyStrV(Preview(request.assistant_content))))
           /\ requests' = [requests EXCEPT ![r] =
                   [request EXCEPT !.pc = "done", !.code = 200]]
    /\ UNCHANGED <<files, clock, uuids, methods, last>>

NextConcurrent ==
    \E r \in Workers :
        \/ ChatSessionExists(r)
        \/ ChatGetHistory(r)
        \/ ChatGeminiResponse(r)
        \/ ChatSaveHistory(r)
        \/ ChatSessionTitle(r)
        \/ ChatLoadMetadata(r)
        \/ ChatWriteMetadata(r)

\* two /chat requests in any interleaving of their file accesses
SpecConcurrent == InitContract /\ [][NextConcurrent]_vars

(***************************************************************************)
(* The validator on its own: the inputs it is applied to.                  *)
(***************************************************************************)
MaxElements == 2

OptionAlphabet == {" ", "(", ")", "[", "]", "x"}

RECURSIVE StringsUpTo(_)
StringsUpTo(n) ==
    IF n = 0 THEN {""}
    ELSE LET shorter == StringsUpTo(n - 1)
         IN  shorter \cup {s \o c : s \in shorter, c \in OptionAlphabet}

\* option values: every string up to MaxOptLen, and values that are no strings
OptionInputs ==
    {PyStrV(s) : s \in StringsUpTo(MaxOptLen)}
        \cup {PyInt(7), PyBool(TRUE), PyNone, PyList(<<>>), PyDict(<<>>)}

Absent == [t |-> "absent"]

\* a dict of the given items, without those whose value is Absent
DictOf(items) == PyDict(SelectSeq(items, LAMBDA item : item.v # Absent))

Element(type, options) == DictOf(<<KV("type", type), KV("options", options)>>)

ElementInputs ==
    { PyStrV("radio"), PyNone,
      Element(PyStrV("radio"), PyList(<<PyStrV("a"), PyStrV(" ( ) b "), PyStrV("")>>)),
      Element(PyStrV("radio"), PyStrV("ab")),
      Element(PyStrV("checkbox"), PyList(<<PyStrV("[ ] a"), PyInt(1)>>)),
      Element(PyStrV("checkbox"), PyList(<<PyNone, PyStrV("( ) c")>>)),
      Element(PyStrV("text"), PyList(<<PyStrV("a")>>)),
      Element(PyStrV("text"), Absent),
      Element(PyStrV("slider"), PyList(<<PyStrV("a")>>)),
      Element(PyInt(1), PyList(<<PyStrV("a")>>)),
      Element(PyList(<<PyStrV("radio")>>), PyList(<<>>)),
      Element(Absent, PyList(<<PyStrV("a")>>)) }

UiInputs ==
    {PyList(els) : els \in UNION {[1..n -> ElementInputs] : n \in 0..MaxElements}}
        \cup {PyNone, PyStrV("radio"), PyInt(0), PyDict(<<>>)}

FieldInputs ==
    { Absent, PyStrV("collecting"), PyStrV("delivered"), PyStrV("done"), PyInt(1),
      PyBool(FALSE), PyNone, PyList(<<PyStrV("delivered")>>),
      PyDict(<<KV("status", PyStrV("delivered"))>>) }

Payload(status, question_text, ui_elements, final_prompt) ==
    DictOf(<<KV("status", status), KV("question_text", question_text),
             KV("ui_elements", ui_elements), KV("final_prompt", final_prompt)>>)

Payloads ==
    {Payload(st, q, ui, f) :
        st \in FieldInputs, q \in FieldInputs,
        ui \in {Absent, PyInt(0), PyList(<<Element(PyStrV("radio"), PyList(<<PyStrV("a")>>)),
                                           Element(PyStrV("dial"), Absent)>>)},
        f \in {Absent, PyStrV("P"), PyNone, PyList(<<>>)}}

\* the option rule, as the validator applies it to one option of one element
OptionRule(el_type, opt) ==
    _normalize_ui_elements(
        PyList(<<Element(PyStrV(el_type), PyList(<<opt>>))>>))[1].options[1]

\* _validate_response(payload)
ValidateResponse ==
    \E payload \in Payloads :
        /\ last.op = "start"
        /\ last' = [op |-> "_validate_response", payload |-> payload,
                    result |-> _validate_response(payload)]
        /\ UNCHANGED <<files, metadata, clock, uuids, methods, requests>>

\* _normalize_ui_elements(ui_elements)
NormalizeUi ==
    \E ui_elements \in UiInputs :
        /\ last.op = "start"
        /\ last' = [op |-> "_normalize_ui_elements", ui_elements |-> ui_elements,
                    val |-> _normalize_ui_elements(ui_elements)]
        /\ UNCHANGED <<files, metadata, clock, uuids, methods, requests>>

\* the option rule applied to an option, and again to its own result
NormalizeOption ==
    \E el_type \in {"radio", "checkbox"}, opt \in OptionInputs :
        /\ last.op = "start"
        /\ last' = [op |-> "option_rule", type |-> el_type, option |-> opt,
                    once |-> OptionRule(el_type, opt),
                    twice |-> OptionRule(el_type, PyStrV(OptionRule(el_type, opt)))]
        /\ UNCHANGED <<files, metadata, clock, uuids, methods, requests>>

NextValidator ==
    \/ ValidateResponse
    \/ NormalizeUi
    \/ NormalizeOption

\* the validator applied once to any input of the sets above
SpecValidator == Init /\ [][NextValidator]_vars

(***************************************************************************)
(* Properties.                                                             *)
(***************************************************************************)
\* an id the request model admits and that keeps at least one character
AcceptedId(session_id) ==
    ValidSessionIdField(session_id) /\ safe_session_id(session_id) # ""

Key(session_id) == safe_session_id(session_id)

Stored(fs, session_id) == get_history(fs, session_id).val

RoleOf(msg) == get(msg, "role", PyNone)

ContentOf(msg) == get(msg, "content", PyNone)

\* after holds before, then one user turn with the input, then one assistant turn
AppendsTurnPair(before, after, user_input) ==
    /\ Len(after) = Len(before) + 2
    /\ SubSeq(after, 1, Len(before)) = before
    /\ RoleOf(after[Len(before) + 1]) = PyStrV("user")
    /\ ContentOf(after[Len(before) + 1]) = PyStrV(user_input)
    /\ RoleOf(after[Len(before) + 2]) = PyStrV("assistant")

\* C1: every /chat on an accepted session id whose model call does not fail
\* leaves the stored turns in place and appends one user turn (the input) and
\* one assistant turn; from an empty history, n calls give 2n alternating turns
C1_ChatAppendsUserThenAssistant ==
    [][(/\ last'.op = "chat"
        /\ AcceptedId(last'.session_id)
        /\ last'.code # 500)
       => AppendsTurnPair(Stored(files, last'.session_id),
                          Stored(files', last'.session_id), last'.user_input)]_vars

\* C6: for every accepted id, get_history and session_exists answer without
\* error: get_history gives the empty sequence and session_exists false when
\* nothing is stored, and session_exists is true exactly when a history is
C6_StoreOffersGetHistoryAndSessionExists ==
    /\ (last.op = "get_history" /\ AcceptedId(last.session_id))
          => /\ last.exc = "none"
             /\ ~files[Key(last.session_id)].exists => last.val = <<>>
    /\ (last.op = "session_exists" /\ AcceptedId(last.session_id))
          => /\ last.exc = "none"
             /\ last.val = files[Key(last.session_id)].exists

\* C2: a /chat whose model call, or the validation of its reply, fails ends
\* with an error body and leaves every session file and the index as they were
C2_ModelFailurePersistsNothing ==
    [][(last'.op = "chat" /\ last'.code = 500)
       => /\ files' = files
          /\ metadata' = metadata
          /\ DOMAIN last'.body = {"detail"}]_vars

\* a chat on a session that does not exist failed in the validation of the reply
C2_Witness ==
    /\ last.op = "chat"
    /\ last.code = 500
    /\ last.body = Detail("Gemini call failed: TypeError")
    /\ ~files[Key(last.session_id)].exists

EntriesOf(md, session_id) ==
    SelectSeq(_load_metadata(md), LAMBDA item : item.id = session_id)

\* the content of the latest assistant turn of a stored history, "" if none
LatestAssistantContent(history) ==
    LET turns == {i \in 1..Len(history) : RoleOf(history[i]) = PyStrV("assistant")}
    IN  IF turns = {} THEN ""
        ELSE ContentOf(history[CHOOSE i \in turns : \A j \in turns : j <= i]).s

\* C4: for every accepted session id, the index has exactly one entry when a
\* history is stored for it and none otherwise, and the entry's preview is the
\* first 140 characters of the latest stored assistant turn
C4_IndexMatchesStore ==
    \A session_id \in SessionIds :
        AcceptedId(session_id) =>
            LET entries == EntriesOf(metadata, session_id)
            IN  IF files[Key(session_id)].exists
                THEN /\ Len(entries) = 1
                     /\ entries[1].preview =
                            Prefix(LatestAssistantContent(Stored(files, session_id)),
                                   PreviewLen)
                ELSE entries = <<>>

\* C5: /reset on a stored session answers reset = true and get_history is then
\* empty; on a session with nothing stored it answers reset = false and
\* changes no session file
C5_ResetDeletesStoredHistory ==
    [][(last'.op = "reset" /\ AcceptedId(last'.session_id))
       => /\ last'.code = 200
          /\ last'.body.reset = files[Key(last'.session_id)].exists
          /\ get_history(files', last'.session_id) = [exc |-> "none", val |-> <<>>]
          /\ ~files[Key(last'.session_id)].exists => files' = files]_vars

\* a reset has just deleted a stored history while another session keeps its own
C5_Witness ==
    /\ last.op = "reset"
    /\ last.code = 200
    /\ last.body.reset
    /\ \E k \in FileKeys : files[k].exists

\* C7: after save_history(id, T) on any id with a valid character,
\* get_history(id) is T, whatever the file held, and the files of the other
\* keys are as before
C7_SaveThenGetRoundTrip ==
    [][(last'.op = "save_history" /\ safe_session_id(last'.session_id) # "")
       => /\ last'.exc = "none"
          /\ get_history(files', last'.session_id) =
                 [exc |-> "none", val |-> last'.history]
          /\ \A k \in FileKeys \ {Key(last'.session_id)} : files'[k] = files[k]]_vars

\* a three-turn history has just been saved through an id that is not its key,
\* next to another session's file
C7_Witness ==
    /\ last.op = "save_history"
    /\ last.exc = "none"
    /\ Len(last.history) = 3
    /\ Key(last.session_id) # last.session_id
    /\ \E k \in FileKeys \ {Key(last.session_id)} : files[k].exists

\* C3: for every JSON object, whatever the type of each field and whether it
\* is there, the validator raises nothing and returns a status of the two
\* (collecting unless one of the two was supplied), string texts and elements
\* of the three types only
C3_ValidatorNeverRaises ==
    last.op = "_validate_response" =>
        /\ last.result.exc = "none"
        /\ last.result.val.status \in ValidStatus
        /\ get(last.payload, "status", PyNone)
               \notin {PyStrV("collecting"), PyStrV("delivered")}
              => last.result.val.status = "collecting"
        /\ \A i \in 1..Len(last.result.val.ui_elements) :
               last.result.val.ui_elements[i].type \in {"radio", "checkbox", "text"}

\* C8: the option rule (coerce to string, trim, add the marker unless the
\* string starts with it) applied twice gives what it gives applied once
C8_OptionRuleIdempotent ==
    last.op = "option_rule" => last.twice = last.once

\* an entry the validator keeps: an object whose type is one of the three
IsKeptElement(el) ==
    /\ isinstance(el, "dict")
    /\ \E type \in {"radio", "checkbox", "text"} : get(el, "type", PyNone) = PyStrV(type)

\* the options supplied with an element, none unless they come as a list
SuppliedOptions(el) ==
    LET options == get(el, "options", PyList(<<>>))
    IN  IF isinstance(options, "list") THEN options.items ELSE <<>>

endswith(s, suffix) ==
    /\ Len(s) >= Len(suffix)
    /\ SubSeq(s, Len(s) - Len(suffix) + 1, Len(s)) = suffix

\* C9: the output holds, in their order, exactly the entries that are objects
\* of type radio, checkbox or text; a radio or checkbox element has as many
\* options as supplied, in their order, each starting with its marker; a text
\* element has none
C9_ElementsFilteredAndMarked ==
    last.op = "_normalize_ui_elements" =>
        LET given == IF isinstance(last.ui_elements, "list")
                     THEN last.ui_elements.items ELSE <<>>
            kept == SelectSeq(given, IsKeptElement)
            out == last.val
        IN  /\ Len(out) = Len(kept)
            /\ \A i \in 1..Len(out) :
                 /\ PyStrV(out[i].type) = get(kept[i], "type", PyNone)
                 /\ IF out[i].type = "text" THEN out[i].options = <<>>
                    ELSE /\ Len(out[i].options) = Len(SuppliedOptions(kept[i]))
                         /\ \A j \in 1..Len(out[i].options) :
                              /\ startswith(out[i].options[j],
                                            IF out[i].type = "radio"
                                            THEN "( ) " ELSE "[ ] ")
                              /\ endswith(out[i].options[j],
                                          strip(str(SuppliedOptions(kept[i])[j])))

\* of two entries, one was dropped and a text element that came with options
\* was kept, and of two others a radio element had its three options marked
C9_Witness ==
    /\ last.op = "_normalize_ui_elements"
    /\ isinstance(last.ui_elements, "list")
    /\ Len(last.ui_elements.items) = 2
    /\ Len(last.val) = 1
    /\ last.val[1].type = "text"
    /\ \E i \in 1..2 : /\ IsKeptElement(last.ui_elements.items[i])
                       /\ SuppliedOptions(last.ui_elements.items[i]) # <<>>

Range(seq) == {seq[i] : i \in 1..Len(seq)}

\* C10: a successful /chat on a session with a stored history does not call
\* title generation and leaves the title of the session's entry as it was,
\* while the entry's updated_at becomes the time of the turn and its preview
\* the first 140 characters of the new assistant turn
C10_TitleKeptAfterFirstTurn ==
    [][(/\ last'.op = "chat"
        /\ last'.code = 200
        /\ files[Key(last'.session_id)].exists)
       => LET before == EntriesOf(metadata, last'.session_id)
              after == EntriesOf(metadata', last'.session_id)
          IN  /\ "get_session_title" \notin Range(last'.calls)
              /\ Len(after) = 1
              /\ before # <<>> => after[1].title = before[1].title
              /\ after[1].updated_at = _now_iso(clock' - 1)
              /\ before # <<>> => after[1].updated_at # before[1].updated_at
              /\ after[1].preview =
                     Prefix(LatestAssistantContent(Stored(files', last'.session_id)),
                            PreviewLen)]_vars

\* a second turn has just kept the title generated on the first, under a
\* preview cut at 140 characters
C10_Witness ==
    /\ last.op = "chat"
    /\ last.code = 200
    /\ "get_session_title" \notin Range(last.calls)
    /\ Len(Stored(files, last.session_id)) = 4
    /\ EntriesOf(metadata, last.session_id)[1].title = "Plan a trip"
    /\ Len(LatestAssistantContent(Stored(files, last.session_id))) > PreviewLen

ResponseFields == {"status", "question_text", "ui_elements", "final_prompt"}

\* C11: on the first /chat of a session with no stored history and no entry,
\* once the model has answered, the turn succeeds whether or not the title
\* call fails: the response is returned, the store holds the user turn and the
\* assistant turn, and the index holds one entry for the session, titled as
\* generated, or "New Session" when the title call failed
C11_TitleFailureIsNotFatal ==
    [][(/\ last'.op = "chat"
        /\ AcceptedId(last'.session_id)
        /\ ~files[Key(last'.session_id)].exists
        /\ EntriesOf(metadata, last'.session_id) = <<>>
        /\ last'.title_call.exc # "not called")
       => LET after == EntriesOf(metadata', last'.session_id)
          IN  /\ last'.code = 200
              /\ DOMAIN last'.body = ResponseFields
              /\ AppendsTurnPair(<<>>, Stored(files', last'.session_id),
                                 last'.user_input)
              /\ Len(after) = 1
              /\ after[1].title = IF last'.title_call.exc = "none"
                                  THEN last'.title_call.val ELSE DefaultTitle]_vars

\* the first turn of a session has just succeeded although its title call failed
C11_Witness ==
    /\ last.op = "chat"
    /\ last.code = 200
    /\ last.title_call.exc = "Exception"
    /\ Len(Stored(files, last.session_id)) = 2
    /\ EntriesOf(metadata, last.session_id)[1].title = DefaultTitle

\* both requests have returned their validated response
BothSucceeded == \A r \in Workers : requests[r].pc = "done" /\ requests[r].code = 200

\* the entry of the request's session shows the request's turn
EntryUpToDate(md, request) ==
    LET entries == EntriesOf(md, request.session_id)
    IN  /\ Len(entries) = 1
        /\ entries[1].updated_at = request.updated_at
        /\ entries[1].preview = Preview(request.assistant_content)

\* C12: when two /chat requests for sessions with different storage keys have
\* both succeeded, however their steps interleaved, each session's stored
\* history is the one its request wrote (its user turn, then its assistant
\* turn) and the index holds an up-to-date entry for each of the two sessions
C12_DifferentSessionsLoseNoUpdate ==
    (/\ BothSucceeded
     /\ Key(requests[1].session_id) # Key(requests[2].session_id))
        => \A r \in Workers :
              /\ Stored(files, requests[r].session_id) = requests[r].history
              /\ AppendsTurnPair(requests[r].loaded, requests[r].history,
                                 requests[r].user_input)
              /\ EntryUpToDate(metadata, requests[r])

\* C13: when two /chat requests on one session have loaded the same history
\* and both succeeded, the stored history is the one written by one of them:
\* what was loaded and that request's two turns, none of the other's
C13_SameSessionLastWriteWins ==
    (/\ BothSucceeded
     /\ requests[1].session_id = requests[2].session_id
     /\ requests[1].loaded = requests[2].loaded)
        => \E r \in Workers :
              /\ Stored(files, requests[r].session_id) = requests[r].history
              /\ AppendsTurnPair(requests[r].loaded, requests[r].history,
                                 requests[r].user_input)
              /\ \A other \in Workers \ {r} :
                    \A i \in 1..Len(Stored(files, requests[r].session_id)) :
                        ContentOf(Stored(files, requests[r].session_id)[i])
                            # PyStrV(requests[other].user_input)

\* both requests on session s1 were answered 200 and the stored history holds
\* the two turns of the second worker only
C13_Witness ==
    /\ BothSucceeded
    /\ requests[1].session_id = "s1"
    /\ requests[2].session_id = "s1"
    /\ requests[1].loaded = requests[2].loaded
    /\ Len(Stored(files, "s1")) = 2
    /\ ContentOf(Stored(files, "s1")[1]) = PyStrV(WorkerInput[2])

\* C14: save_history replaces a stored history as a whole: when its write
\* fails, get_history still returns the sequence stored before, and when it
\* succeeds get_history returns the new sequence
C14_SaveHistoryIsAtomic ==
    [][/\ (/\ last'.op = "save_history_fails"
           /\ safe_session_id(last'.session_id) # ""
           /\ get_history(files, last'.session_id).exc = "none")
          => get_history(files', last'.session_id) =
                 get_history(files, last'.session_id)
       /\ (/\ last'.op = "save_history"
           /\ safe_session_id(last'.session_id) # "")
          => get_history(files', last'.session_id) =
                 [exc |-> "none", val |-> last'.history]]_vars

StoreOps == {"get_history", "save_history", "save_history_fails", "delete_history"}

OtherFilesKept(fs, after, session_id) ==
    \A k \in FileKeys \ {Key(session_id)} : after[k] = fs[k]

\* C15: get_history, save_history and delete_history use the id reduced to its
\* alphanumeric, '-' and '_' characters as the storage key, and fail with
\* ValueError, changing nothing, when nothing is left of it; /chat and /reset
\* with such an id answer an error and leave the store and the index alone
C15_SanitizedIdIsTheKey ==
    [][/\ (last'.op \in StoreOps /\ safe_session_id(last'.session_id) = "")
          => /\ last'.exc = "ValueError"
             /\ files' = files
       /\ (last'.op \in StoreOps /\ safe_session_id(last'.session_id) # "")
          => /\ last'.exc # "ValueError"
             /\ OtherFilesKept(files, files', last'.session_id)
       /\ (last'.op = "save_history" /\ safe_session_id(last'.session_id) # "")
          => files'[safe_session_id(last'.session_id)] =
                 File(json_dump(PyList(last'.history)))
       /\ (last'.op = "delete_history" /\ safe_session_id(last'.session_id) # "")
          => /\ last'.val = files[safe_session_id(last'.session_id)].exists
             /\ files'[safe_session_id(last'.session_id)] = NoFile
       /\ (last'.op = "get_history" /\ safe_session_id(last'.session_id) # "")
          => /\ files' = files
             /\ [exc |-> last'.exc, val |-> last'.val] =
                    get_history(files, safe_session_id(last'.session_id))
       /\ (last'.op \in {"chat", "reset"} /\ safe_session_id(last'.session_id) = "")
          => /\ last'.code \in {400, 422}
             /\ DOMAIN last'.body = {"detail"}
             /\ files' = files
             /\ metadata' = metadata]_vars

\* /reset with the id "/" has just been refused with the store's ValueError
\* while a history is stored
C15_Witness ==
    /\ last.op = "reset"
    /\ last.session_id = "/"
    /\ last.code = 400
    /\ last.body = Detail("ValueError")
    /\ \E k \in FileKeys : files[k].exists

StoredRoles == {PyStrV("user"), PyStrV("assistant")}

\* the role the model is given for a stored role
ModelRole(role) == IF role = PyStrV("assistant") THEN "model" ELSE role.s

\* the role /history reports for a message of the given role
HistoryRole(role) ==
    NormalizedMessage(PyDict(<<KV("role", PyStrV(role))>>), 1)[1].role

TimeOf(timestamp) == CHOOSE t \in 0..99 : _now_iso(t) = timestamp

\* C17: /sessions returns every entry of the index once, later updated_at
\* first; and after a successful /chat the session of that /chat is the first
\* that /sessions would list
C17_SessionsNewestFirst ==
    [][/\ last'.op = "sessions"
          => LET body == last'.body
                 items == _load_metadata(metadata)
             IN  /\ Len(body) = Len(items)
                 /\ {body[i].session_id : i \in 1..Len(body)}
                        = {items[i].id : i \in 1..Len(items)}
                 /\ \A i, j \in 1..Len(body) :
                        i < j => /\ body[i].session_id # body[j].session_id
                                 /\ TimeOf(body[i].updated_at)
                                        > TimeOf(body[j].updated_at)
       /\ (last'.op = "chat" /\ last'.code = 200)
          => /\ list_sessions(metadata')[1].session_id = last'.session_id
             /\ TimeOf(list_sessions(metadata')[1].updated_at) = clock' - 1]_vars

\* after two turns of s1 and then one of s2, /sessions lists s2 before s1
\* although the index file holds s1 first
C17_Witness ==
    /\ last.op = "sessions"
    /\ Len(last.body) = 2
    /\ last.body[1].session_id = "s2"
    /\ last.body[2].session_id = "s1"
    /\ _load_metadata(metadata)[1].id = "s1"
    /\ Len(Stored(files, "s1")) = 4

\* C20: every successful /chat adds its input, and nothing else, at the end
\* of what /summary returns for the session, so that n of them on a session
\* with nothing stored give [u1, ..., un]; /summary answers 200 with the
\* contents of the user turns in their order, one for each assistant turn and
\* none of them an assistant content, and with the empty list when nothing is
\* stored
C20_SummaryListsUserInputs ==
    [][/\ (last'.op = "chat" /\ last'.code = 200)
          => summary(files', metadata', clock', uuids', last'.session_id)
                    .body.user_answers
                 = Append(summary(files, metadata, clock, uuids, last'.session_id)
                              .body.user_answers,
                          last'.user_input)
       /\ (last'.op = "summary" /\ AcceptedId(last'.session_id))
          => LET stored == Stored(files, last'.session_id)
                 answers == last'.body.user_answers
             IN  /\ last'.code = 200
                 /\ last'.body.session_id = last'.session_id
                 /\ ~files[Key(last'.session_id)].exists => answers = <<>>
                 /\ 2 * Len(answers) = Len(stored)
                 /\ \A i \in 1..Len(answers) :
                        /\ PyStrV(answers[i]) = ContentOf(stored[2 * i - 1])
                        /\ RoleOf(stored[2 * i - 1]) = PyStrV("user")
                        /\ answers[i] \in UserInputs]_vars

\* /summary has just returned the inputs of three turns in their order
C20_Witness ==
    /\ last.op = "summary"
    /\ last.code = 200
    /\ last.body.user_answers = <<"go", "hi", "go">>

\* the accepted ids that reduce to the same storage key as the given id
Aliases(session_id) ==
    {id \in SessionIds : AcceptedId(id) /\ Key(id) = Key(session_id)}

\* the entries of the index that are not the given id's
OtherEntries(md, session_id) ==
    SelectSeq(_load_metadata(md), LAMBDA item : item.id # session_id)

\* C18: ids that reduce to the same storage key share one stored history: the
\* turns a /chat on one of them saves are appended to the history read through
\* each of them, /history on one reports the turns stored through any of
\* them, and /reset on one leaves nothing stored for any of them; the index
\* is keyed by the id as given: a /chat writes the entry of its own id and
\* leaves the entries of all other ids, those sharing its key included
C18_AliasesShareHistoryNotEntry ==
    [][/\ (last'.op = "chat" /\ last'.code = 200)
          => /\ \A id \in Aliases(last'.session_id) :
                    AppendsTurnPair(Stored(files, id), Stored(files', id),
                                    last'.user_input)
             /\ Len(EntriesOf(metadata', last'.session_id)) = 1
             /\ EntriesOf(metadata', last'.session_id)[1].updated_at
                    = _now_iso(clock' - 1)
             /\ OtherEntries(metadata', last'.session_id)
                    = OtherEntries(metadata, last'.session_id)
       /\ (last'.op = "history" /\ last'.code = 200)
          => \A id \in Aliases(last'.session_id) :
                /\ Len(last'.body) = Len(Stored(files, id))
                /\ \A i \in 1..Len(last'.body) :
                       PyStrV(last'.body[i].content) = ContentOf(Stored(files, id)[i])
       /\ (last'.op = "reset" /\ last'.code = 200)
          => \A id \in Aliases(last'.session_id) :
                get_history(files', id) = [exc |-> "none", val |-> <<>>]]_vars

\* a /chat on "s/1" has just added its two turns to the history that a /chat
\* on "s1" began, and the index holds an entry for each of the two ids
C18_Witness ==
    /\ last.op = "chat"
    /\ last.code = 200
    /\ last.session_id = "s/1"
    /\ Len(Stored(files, "s1")) = 4
    /\ Len(EntriesOf(metadata, "s1")) = 1
    /\ Len(EntriesOf(metadata, "s/1")) = 1

\* C19: a /reset that is not refused leaves no entry with the given id in the
\* index, whether a history was deleted (reset true) or none was stored
\* (reset false), keeps the entries of all other ids as they were and in
\* their order, and changes no session file but the one of the given id
C19_ResetRemovesOnlyItsEntry ==
    [][(last'.op = "reset" /\ last'.code = 200)
       => /\ last'.body.reset = files[Key(last'.session_id)].exists
          /\ EntriesOf(metadata', last'.session_id) = <<>>
          /\ OtherEntries(metadata', last'.session_id)
                 = OtherEntries(metadata, last'.session_id)
          /\ OtherEntries(metadata', last'.session_id) = _load_metadata(metadata')
          /\ OtherFilesKept(files, files', last'.session_id)]_vars

\* a /reset of an id with nothing stored has answered reset = false; the index
\* holds no entry of that id and still holds another session's entry, whose
\* history is still stored
C19_Witness ==
    /\ last.op = "reset"
    /\ last.code = 200
    /\ ~last.body.reset
    /\ EntriesOf(metadata, last.session_id) = <<>>
    /\ \E id \in SessionIds \ {last.session_id} :
          /\ AcceptedId(id)
          /\ Len(EntriesOf(metadata, id)) = 1
          /\ files[Key(id)].exists

====
